---- MODULE Spec2Model ----
(***************************************************************************)
(* Library API (src/fastapi/main.py, src/fastapi/models.py): three tables  *)
(* (author, book, comment) behind create/list/get endpoints, and the       *)
(* Prometheus middleware that wraps every request.                         *)
(*                                                                         *)
(* A request is served in three steps, which interleave between clients:   *)
(*   1. the middleware up to `await call_next(request)`  (main.py 56-68),  *)
(*   2. call_next: the router and the endpoint           (main.py 96-164), *)
(*   3. the rest of the middleware                       (main.py 59,69-90)*)
(* The store is PostgreSQL (main.py 39): a heap table per model, a serial  *)
(* sequence per primary key, unique primary keys, and the foreign keys     *)
(* that models.py declares.  The store is taken to be reachable: the only  *)
(* errors a handler raises are the store's IntegrityErrors.                *)
(*                                                                         *)
(* Spec serves concurrent connections a traffic mix that reaches every     *)
(* path through the middleware; SpecCrud serves one connection the         *)
(* requests of the author, book and comment endpoints.                     *)
(***************************************************************************)
EXTENDS Integers, Sequences, FiniteSets, Bags, TLC

\* ---------------------------------------------------------------- bounds
MaxRequests == 4        \* requests sent in one behaviour

Clients == {"c1", "c2"} \* concurrently served connections

\* ------------------------------------------------------------ data model
None == 0               \* Field(default=None); stored ids start at 1

Kinds == {"author", "book", "comment"}

\* the fields of the models: an optional int is an Int, None included
Author == [id : Int, name : STRING, surname : STRING, birth_date : STRING]

Book == [id : Int, title : STRING, description : STRING, genre : STRING,
         author_id : Int]

Comment == [id : Int, content : STRING, book_id : Int]

Payloads(kind) ==
    CASE kind = "author"  -> Author
      [] kind = "book"    -> Book
      [] kind = "comment" -> Comment

\* the table a foreign key of `kind` points into, "" when it has none
Parent(kind) ==
    CASE kind = "author"  -> ""
      [] kind = "book"    -> "author"
      [] kind = "comment" -> "book"

ForeignKey(kind, row) ==
    CASE kind = "author"  -> None
      [] kind = "book"    -> row.author_id
      [] kind = "comment" -> row.book_id

\* ------------------------------------------------------------ HTTP layer
NoBody == [empty |-> TRUE]
Malformed == [malformed |-> TRUE]

\* the decimal digits of a path parameter
Digits == <<"1", "2", "3", "4", "5", "6", "7", "8", "9">>

IsInt(s) == \E i \in 1..Len(Digits) : Digits[i] = s

\* int(path parameter), for a segment that IsInt
ParseInt(s) == CHOOSE i \in 1..Len(Digits) : Digits[i] = s

\* request.url.path of the segments of a path ("/authors/1" is <<"authors", "1">>,
\* a trailing slash is a last empty segment)
RECURSIVE UrlPath(_)
UrlPath(segs) ==
    IF segs = <<>> THEN "" ELSE "/" \o Head(segs) \o UrlPath(Tail(segs))

NoRoute == "none"       \* request.scope.get("route") is None

Routes == <<
    [method |-> "GET",  path |-> "/metrics", segs |-> <<"metrics">>,
     endpoint |-> "metrics"],
    [method |-> "GET",  path |-> "/", segs |-> <<"">>,
     endpoint |-> "root"],
    [method |-> "POST", path |-> "/authors/", segs |-> <<"authors", "">>,
     endpoint |-> "create_author"],
    [method |-> "GET",  path |-> "/authors/", segs |-> <<"authors", "">>,
     endpoint |-> "read_authors"],
    [method |-> "GET",  path |-> "/authors/{author_id}",
     segs |-> <<"authors", "{author_id}">>, endpoint |-> "read_author"],
    [method |-> "POST", path |-> "/books/", segs |-> <<"books", "">>,
     endpoint |-> "create_book"],
    [method |-> "GET",  path |-> "/books/", segs |-> <<"books", "">>,
     endpoint |-> "read_books"],
    [method |-> "GET",  path |-> "/books/{book_id}",
     segs |-> <<"books", "{book_id}">>, endpoint |-> "read_book"],
    [method |-> "POST", path |-> "/comments/", segs |-> <<"comments", "">>,
     endpoint |-> "create_comment"],
    [method |-> "GET",  path |-> "/comments/", segs |-> <<"comments", "">>,
     endpoint |-> "read_comments"],
    [method |-> "GET",  path |-> "/books/{book_id}/comments/",
     segs |-> <<"books", "{book_id}", "comments", "">>,
     endpoint |-> "read_book_comments"] >>

IsParam(seg) == seg \in {"{author_id}", "{book_id}"}

\* the path regex of a route: a parameter matches one non-empty segment
PathMatches(tmpl, segs) ==
    /\ Len(tmpl) = Len(segs)
    /\ \A i \in 1..Len(tmpl) :
          IF IsParam(tmpl[i]) THEN segs[i] # "" ELSE tmpl[i] = segs[i]

\* Route.matches: "full", "partial" (the path matches, the method does not), "none"
Matches(route, method, segs) ==
    IF ~PathMatches(route.segs, segs) THEN "none"
    ELSE IF route.method = method THEN "full" ELSE "partial"

\* the path the router tries when nothing matched: the trailing slash toggled
RedirectSegs(segs) ==
    IF segs[Len(segs)] = "" THEN SubSeq(segs, 1, Len(segs) - 1)
    ELSE Append(segs, "")

\* Router: the first full match, else the first partial match (405), else a
\* redirect when the path with its trailing slash toggled matches (307), else 404
Router(method, segs) ==
    LET full == {i \in 1..Len(Routes) : Matches(Routes[i], method, segs) = "full"}
        part == {i \in 1..Len(Routes) : Matches(Routes[i], method, segs) = "partial"}
        min(S) == CHOOSE i \in S : \A j \in S : i <= j
        redir == /\ segs # <<"">>
                 /\ RedirectSegs(segs) # <<>>
                 /\ \E i \in 1..Len(Routes) :
                       Matches(Routes[i], method, RedirectSegs(segs)) # "none"
    IN  IF full # {} THEN [match |-> "full", route |-> min(full)]
        ELSE IF part # {} THEN [match |-> "partial", route |-> min(part)]
        ELSE IF redir THEN [match |-> "redirect", route |-> 0]
        ELSE [match |-> "none", route |-> 0]

Endpoint(method, segs) ==
    LET r == Router(method, segs)
    IN  IF r.match = "full" THEN Routes[r.route].endpoint ELSE ""

\* the requests the clients send
Get(segs) == [method |-> "GET", segs |-> segs, body |-> NoBody]

Post(segs, body) == [method |-> "POST", segs |-> segs, body |-> body]

NewAuthor(id, name) ==
    [id |-> id, name |-> name, surname |-> "Austen", birth_date |-> "null"]

NewBook(id, author_id) ==
    [id |-> id, title |-> "Emma", description |-> "null", genre |-> "null",
     author_id |-> author_id]

NewComment(id, book_id) == [id |-> id, content |-> "nice", book_id |-> book_id]

\* Spec: every way through the middleware
Traffic ==
    {Get(<<"">>), Get(<<"metrics">>), Get(<<"metrics", "">>), Get(<<"nope">>),
     Get(<<"authors", "1">>), Get(<<"authors", "abc">>),
     Post(<<"authors", "">>, NewAuthor(1, "Jane")),
     Post(<<"authors", "">>, Malformed),
     [method |-> "DELETE", segs |-> <<"authors", "">>, body |-> NoBody]}

\* SpecCrud: payloads without an id and with one, with and without a parent
CrudRequests ==
    {Post(<<"authors", "">>, NewAuthor(None, "Jane")),
     Post(<<"authors", "">>, NewAuthor(None, "Emily")),
     Post(<<"authors", "">>, NewAuthor(2, "Jane")),
     Post(<<"books", "">>, NewBook(None, None)),
     Post(<<"books", "">>, NewBook(None, 1)),
     Post(<<"books", "">>, NewBook(2, None)),
     Post(<<"comments", "">>, NewComment(None, None)),
     Post(<<"comments", "">>, NewComment(None, 1)),
     Post(<<"comments", "">>, NewComment(2, 1)),
     Post(<<"comments", "">>, NewComment(1, 1)),
     Get(<<"authors", "">>), Get(<<"authors", "1">>), Get(<<"authors", "2">>),
     Get(<<"books", "">>), Get(<<"books", "1">>), Get(<<"books", "2">>),
     Get(<<"comments", "">>), Get(<<"comments", "1">>), Get(<<"comments", "2">>),
     Get(<<"books", "1", "comments", "">>),
     Get(<<"books", "2", "comments", "">>)}

\* responses and errors, as call_next hands them to the middleware
NoOutcome == [kind |-> "none"]

Response(status, shape, content) ==
    [kind |-> "response", status |-> status, shape |-> shape, content |-> content]

Raise(exc) == [kind |-> "raise", exc |-> exc]

\* str(status), the label value prometheus_client stores
StatusLabel(status) ==
    CASE status = 200 -> "200"
      [] status = 307 -> "307"
      [] status = 404 -> "404"
      [] status = 405 -> "405"
      [] status = 422 -> "422"

\* ------------------------------------------------------------------ state
VARIABLES
    tables,          \* the store: kind -> rows, in heap (insertion) order
    seq,             \* the store: kind -> last value of the id sequence
    REQUEST_COUNT,   \* Counter: bag of [method, path, status]
    REQUEST_LATENCY, \* Histogram: bag of [method, path], one per observation
    IN_PROGRESS,     \* Gauge
    pc,              \* client -> "idle", "called", "returned", "done"
    request,         \* client -> the request being served
    scopeRoute,      \* client -> request.scope["route"].path, or NoRoute
    outcome,         \* client -> what call_next returned or raised
    delivered,       \* client -> what the middleware returned or raised
    sent,            \* history: requests sent so far
    completed,       \* history: bag of [method, path, status] of the instrumented
                     \*          requests whose call_next returned a response
    posted,          \* history: [kind, entity] of every entity a POST returned
    generated,       \* history: kind -> ids the sequence assigned to stored rows
    delta            \* history: client -> net change the client's current
                     \*          request has made to IN_PROGRESS

vars == <<tables, seq, REQUEST_COUNT, REQUEST_LATENCY, IN_PROGRESS,
          pc, request, scopeRoute, outcome, delivered,
          sent, completed, posted, generated, delta>>

store == <<tables, seq, posted, generated>>
metricvars == <<REQUEST_COUNT, REQUEST_LATENCY, IN_PROGRESS>>

NoRequest == [method |-> "", segs |-> <<>>, body |-> NoBody]

Init ==
    /\ tables = [k \in Kinds |-> <<>>]
    /\ seq = [k \in Kinds |-> 0]
    /\ REQUEST_COUNT = EmptyBag
    /\ REQUEST_LATENCY = EmptyBag
    /\ IN_PROGRESS = 0
    /\ pc = [c \in Clients |-> "idle"]
    /\ request = [c \in Clients |-> NoRequest]
    /\ scopeRoute = [c \in Clients |-> NoRoute]
    /\ outcome = [c \in Clients |-> NoOutcome]
    /\ delivered = [c \in Clients |-> NoOutcome]
    /\ sent = 0
    /\ completed = EmptyBag
    /\ posted = {}
    /\ generated = [k \in Kinds |-> {}]
    /\ delta = [c \in Clients |-> 0]

\* ------------------------------------------------------------------ store
Ids(rows) == {rows[i].id : i \in 1..Len(rows)}

\* session.add(row); session.commit(): INSERT with the id of the payload, or
\* nextval of the sequence when the payload has none.  A duplicate primary key
\* or a dangling foreign key is an IntegrityError; the sequence keeps the value
\* it handed out either way.
SessionCommit(kind, row) ==
    LET id == IF row.id = None THEN seq[kind] + 1 ELSE row.id
        fk == ForeignKey(kind, row)
        fkOk == fk = None \/ fk \in Ids(tables[Parent(kind)])
    IN  [ok  |-> id \notin Ids(tables[kind]) /\ fkOk,
         id  |-> id,
         seq |-> IF row.id = None THEN seq[kind] + 1 ELSE seq[kind]]

\* session.refresh(row): the attributes of the row are loaded again from the
\* stored row with the primary key the INSERT returned
SessionRefresh(rows, row, id) ==
    LET i == CHOOSE j \in 1..Len(rows) : rows[j].id = id
    IN  [f \in DOMAIN row |-> rows[i][f]]

\* session.get(Model, id): the row with that primary key, as <<row>>, or <<>>
SessionGetFirst(rows, id) == IF rows = <<>> THEN <<>> ELSE <<rows[1]>>

SessionGetByPosition(rows, id) ==
    IF id \in 1..Len(rows) THEN <<rows[id]>> ELSE <<>>

SessionGet(rows, id) == SelectSeq(rows, LAMBDA r : r.id = id)

\* session.exec(select(Model)).all()
SelectAll(rows) == rows

\* session.exec(select(Comment).where(Comment.book_id == book_id)).all()
RECURSIVE WhereBookId(_, _)
WhereBookIdUnfiltered(rows, book_id) == rows

WhereBookId(rows, book_id) ==
    IF rows = <<>> THEN <<>>
    ELSE IF Head(rows).book_id = book_id
         THEN <<Head(rows)>> \o WhereBookId(Tail(rows), book_id)
         ELSE WhereBookId(Tail(rows), book_id)

\* ----------------------------------------------- middleware, before call_next
\* main.py 58: request.url.path == "/metrics"
NeverSkips(segs) == FALSE

SkipsMetrics(segs) == UrlPath(segs) = "/metrics"

\* Gauge.inc() and Gauge.dec()
IncLost(g) == IF g > 0 THEN g ELSE g + 1

Inc(g) == g + 1

DecMissing(g) == g

Dec(g) == g - 1

\* a connection takes its next request: the locals of the previous one are gone
Accept(c, r) ==
    /\ pc[c] \in {"idle", "done"}
    /\ sent < MaxRequests
    /\ sent' = sent + 1
    /\ pc' = [pc EXCEPT ![c] = "called"]
    /\ request' = [request EXCEPT ![c] = r]
    /\ scopeRoute' = [scopeRoute EXCEPT ![c] = NoRoute]
    /\ outcome' = [outcome EXCEPT ![c] = NoOutcome]
    /\ delivered' = [delivered EXCEPT ![c] = NoOutcome]
    /\ UNCHANGED <<store, REQUEST_COUNT, REQUEST_LATENCY, completed>>

\* main.py 58-59: the metrics endpoint goes to call_next uninstrumented
MiddlewareSkip(c, r) ==
    /\ SkipsMetrics(r.segs)
    /\ Accept(c, r)
    /\ delta' = [delta EXCEPT ![c] = 0]
    /\ UNCHANGED IN_PROGRESS

\* main.py 61-68: IN_PROGRESS.inc(), then await call_next(request)
MiddlewareEnter(c, r) ==
    /\ ~SkipsMetrics(r.segs)
    /\ Accept(c, r)
    /\ IN_PROGRESS' = Inc(IN_PROGRESS)
    /\ delta' = [delta EXCEPT ![c] = IN_PROGRESS' - IN_PROGRESS]

\* ------------------------------------------------- call_next: the endpoints
KindOf(endpoint) ==
    CASE endpoint \in {"create_author", "read_authors", "read_author"} -> "author"
      [] endpoint \in {"create_book", "read_books", "read_book"} -> "book"
      [] endpoint \in {"create_comment", "read_comments", "read_book_comments"}
            -> "comment"

\* the request validation FastAPI derives from an endpoint's signature: an int
\* path parameter, a body that is the model
Valid(endpoint, req) ==
    CASE endpoint \in {"read_author", "read_book", "read_book_comments"}
            -> IsInt(req.segs[2])
      [] endpoint \in {"create_author", "create_book", "create_comment"}
            -> req.body \in Payloads(KindOf(endpoint))
      [] OTHER -> TRUE

\* call_next ends: the router has put the matched route in the scope
Returned(c, route, oc) ==
    /\ pc' = [pc EXCEPT ![c] = "returned"]
    /\ scopeRoute' = [scopeRoute EXCEPT ![c] = route]
    /\ outcome' = [outcome EXCEPT ![c] = oc]
    /\ UNCHANGED <<metricvars, request, delivered, sent, completed, delta>>

MatchedPath(c) == Routes[Router(request[c].method, request[c].segs).route].path

Handles(c, endpoint) ==
    /\ pc[c] = "called"
    /\ Endpoint(request[c].method, request[c].segs) = endpoint
    /\ Valid(endpoint, request[c])

\* create_author, create_book, create_comment: add, commit, refresh, return
Create(c, kind) ==
    LET r == SessionCommit(kind, request[c].body)
        after == [tables EXCEPT ![kind] =
                     Append(@, [request[c].body EXCEPT !.id = r.id])]
        fresh == SessionRefresh(after[kind], request[c].body, r.id)
    IN  /\ seq' = [seq EXCEPT ![kind] = r.seq]
        /\ IF r.ok
           THEN /\ tables' = after
                /\ posted' = posted \cup {[kind |-> kind, entity |-> fresh]}
                /\ generated' = IF request[c].body.id = None
                                THEN [generated EXCEPT ![kind] = @ \cup {r.id}]
                                ELSE generated
                /\ Returned(c, MatchedPath(c),
                            Response(200, "entity", <<fresh>>))
           ELSE /\ UNCHANGED <<tables, posted, generated>>
                /\ Returned(c, MatchedPath(c), Raise("IntegrityError"))

\* read_authors, read_books, read_comments
ReadAll(c, kind) ==
    /\ Returned(c, MatchedPath(c), Response(200, "list", SelectAll(tables[kind])))
    /\ UNCHANGED <<tables, seq, posted, generated>>

\* read_author, read_book
ReadOne(c, kind, detail) ==
    LET found == SessionGet(tables[kind], ParseInt(request[c].segs[2]))
    IN  /\ IF found = <<>>
           THEN Returned(c, MatchedPath(c),
                         Response(404, "detail", <<[detail |-> detail]>>))
           ELSE Returned(c, MatchedPath(c), Response(200, "entity", found))
        /\ UNCHANGED <<tables, seq, posted, generated>>

create_author(c) == Handles(c, "create_author") /\ Create(c, "author")

read_authors(c) == Handles(c, "read_authors") /\ ReadAll(c, "author")

read_author(c) ==
    Handles(c, "read_author") /\ ReadOne(c, "author", "Author not found")

create_book(c) == Handles(c, "create_book") /\ Create(c, "book")

read_books(c) == Handles(c, "read_books") /\ ReadAll(c, "book")

read_book(c) == Handles(c, "read_book") /\ ReadOne(c, "book", "Book not found")

create_comment(c) == Handles(c, "create_comment") /\ Create(c, "comment")

read_comments(c) == Handles(c, "read_comments") /\ ReadAll(c, "comment")

read_book_comments(c) ==
    /\ Handles(c, "read_book_comments")
    /\ Returned(c, MatchedPath(c),
                Response(200, "list",
                         WhereBookId(tables["comment"],
                                     ParseInt(request[c].segs[2]))))
    /\ UNCHANGED <<tables, seq, posted, generated>>

\* generate_latest(): the text exposition of the registry
metrics(c) ==
    /\ Handles(c, "metrics")
    /\ Returned(c, MatchedPath(c),
                Response(200, "text",
                         <<[http_requests_total |-> REQUEST_COUNT,
                            http_request_duration_seconds |-> REQUEST_LATENCY,
                            http_requests_in_progress |-> IN_PROGRESS]>>))
    /\ UNCHANGED <<tables, seq, posted, generated>>

root(c) ==
    /\ Handles(c, "root")
    /\ Returned(c, MatchedPath(c),
                Response(200, "message",
                         <<[message |->
                            "Library API - Manage authors, books, and comments"]>>))
    /\ UNCHANGED <<tables, seq, posted, generated>>

\* ------------------------------------------ call_next: the framework's answers
\* 422: the route matched, the path parameter or the body did not validate
RequestValidationError(c) ==
    /\ pc[c] = "called"
    /\ Router(request[c].method, request[c].segs).match = "full"
    /\ ~Valid(Endpoint(request[c].method, request[c].segs), request[c])
    /\ Returned(c, MatchedPath(c),
                Response(422, "detail", <<[detail |-> "validation error"]>>))
    /\ UNCHANGED <<tables, seq, posted, generated>>

\* 405: a route matched the path but not the method; it is in the scope all the same
MethodNotAllowed(c) ==
    /\ pc[c] = "called"
    /\ Router(request[c].method, request[c].segs).match = "partial"
    /\ Returned(c, MatchedPath(c),
                Response(405, "detail", <<[detail |-> "Method Not Allowed"]>>))
    /\ UNCHANGED <<tables, seq, posted, generated>>

\* 307: no route matched, one matches the path with the trailing slash toggled
RedirectSlashes(c) ==
    /\ pc[c] = "called"
    /\ Router(request[c].method, request[c].segs).match = "redirect"
    /\ Returned(c, NoRoute,
                Response(307, "redirect",
                         <<[location |-> UrlPath(RedirectSegs(request[c].segs))]>>))
    /\ UNCHANGED <<tables, seq, posted, generated>>

\* 404: no route matched
NotFound(c) ==
    /\ pc[c] = "called"
    /\ Router(request[c].method, request[c].segs).match = "none"
    /\ Returned(c, NoRoute, Response(404, "detail", <<[detail |-> "Not Found"]>>))
    /\ UNCHANGED <<tables, seq, posted, generated>>

\* ------------------------------------------------ middleware, after call_next
\* main.py 59: return await call_next(request), for the metrics endpoint
MiddlewareReturn(c) ==
    /\ pc[c] = "returned"
    /\ SkipsMetrics(request[c].segs)
    /\ pc' = [pc EXCEPT ![c] = "done"]
    /\ delivered' = [delivered EXCEPT ![c] = outcome[c]]
    /\ UNCHANGED <<store, metricvars, request, scopeRoute, outcome, sent,
                   completed, delta>>

\* main.py 77-78: route = request.scope.get("route");
\*                path = route.path if route else "unknown"
LabelPathLiteral(c) == UrlPath(request[c].segs)

LabelPath(c) == IF scopeRoute[c] # NoRoute THEN scopeRoute[c] ELSE "unknown"

\* main.py 81-85: the label values of REQUEST_COUNT
CountKeyStatusOk(c, path, status) ==
    [method |-> request[c].method, path |-> path, status |-> "200"]

CountKey(c, path, status) ==
    [method |-> request[c].method, path |-> path, status |-> StatusLabel(status)]

\* main.py 87-90: the label values of REQUEST_LATENCY
LatencyKey(c, path) == [method |-> request[c].method, path |-> path]

\* the series a request belongs to, from the router's own answer
SeriesOf(c) ==
    LET r == Router(request[c].method, request[c].segs)
    IN  [method |-> request[c].method,
         path   |-> IF r.match \in {"full", "partial"}
                    THEN Routes[r.route].path ELSE "unknown",
         status |-> StatusLabel(outcome[c].status)]

\* main.py 69-90: status = response.status_code; return response; and the
\* finally block.  When call_next raised, `status` was never bound: evaluating
\* the arguments of REQUEST_COUNT.labels raises UnboundLocalError after
\* IN_PROGRESS.dec() ran, nothing is recorded, and the new error replaces the
\* handler's.
MiddlewareFinally(c) ==
    /\ pc[c] = "returned"
    /\ ~SkipsMetrics(request[c].segs)
    /\ pc' = [pc EXCEPT ![c] = "done"]
    /\ IN_PROGRESS' = Dec(IN_PROGRESS)
    /\ delta' = [delta EXCEPT ![c] = @ + (IN_PROGRESS' - IN_PROGRESS)]
    /\ IF outcome[c].kind = "response"
       THEN /\ REQUEST_COUNT' = REQUEST_COUNT (+)
                   SetToBag({CountKey(c, LabelPath(c), outcome[c].status)})
            /\ REQUEST_LATENCY' = REQUEST_LATENCY (+)
                   SetToBag({LatencyKey(c, LabelPath(c))})
            /\ delivered' = [delivered EXCEPT ![c] = outcome[c]]
            /\ completed' = completed (+) SetToBag({SeriesOf(c)})
       ELSE /\ delivered' = [delivered EXCEPT ![c] = Raise("UnboundLocalError")]
            /\ UNCHANGED <<REQUEST_COUNT, REQUEST_LATENCY, completed>>
    /\ UNCHANGED <<store, request, scopeRoute, outcome, sent>>

\* ---------------------------------------------------------- specification
\* concurrent connections, the traffic mix
Next ==
    \E c \in Clients :
        \/ \E r \in Traffic : MiddlewareSkip(c, r)
        \/ \E r \in Traffic : MiddlewareEnter(c, r)
        \/ create_author(c)
        \/ read_author(c)
        \/ metrics(c)
        \/ root(c)
        \/ RequestValidationError(c)
        \/ MethodNotAllowed(c)
        \/ RedirectSlashes(c)
        \/ NotFound(c)
        \/ MiddlewareReturn(c)
        \/ MiddlewareFinally(c)

Spec == Init /\ [][Next]_vars

\* one connection, the requests of the entity endpoints
NextCrud ==
    \E c \in {"c1"} :
        \/ \E r \in CrudRequests : MiddlewareEnter(c, r)
        \/ create_author(c)
        \/ read_authors(c)
        \/ read_author(c)
        \/ create_book(c)
        \/ read_books(c)
        \/ read_book(c)
        \/ create_comment(c)
        \/ read_comments(c)
        \/ read_book_comments(c)
        \/ NotFound(c)
        \/ MiddlewareFinally(c)

SpecCrud == Init /\ [][NextCrud]_vars

\* ------------------------------------------------------------- properties
\* the request of client c went through the instrumented part of the middleware
Instrumented(c) == UrlPath(request[c].segs) # "/metrics"

\* the step is client c's call_next
CallNextStep(c) == pc[c] = "called" /\ pc'[c] = "returned"

\* the step is the end of client c's middleware
ExitStep(c) == pc[c] = "returned" /\ pc'[c] = "done"

\* client c's request is GET /<collection>/<int>
IsGetById(c, collection) ==
    /\ request[c].method = "GET"
    /\ Len(request[c].segs) = 2
    /\ request[c].segs[1] = collection
    /\ IsInt(request[c].segs[2])

\* client c's request is GET /books/<int>/comments/
IsGetBookComments(c) ==
    /\ request[c].method = "GET"
    /\ Len(request[c].segs) = 4
    /\ request[c].segs[1] = "books"
    /\ IsInt(request[c].segs[2])
    /\ request[c].segs[3] = "comments"
    /\ request[c].segs[4] = ""

CollectionKind(collection) ==
    CASE collection = "authors"  -> "author"
      [] collection = "books"    -> "book"
      [] collection = "comments" -> "comment"

Templates == {Routes[i].path : i \in 1..Len(Routes)}

\* C1: when an instrumented request has completed, with a response or with an
\* error, the gauge is where it was before the request entered, apart from what
\* the other requests did to it meanwhile: the request's own increments and
\* decrements of IN_PROGRESS add up to zero.
C1_GaugeRestored ==
    \A c \in Clients : (pc[c] = "done" /\ Instrumented(c)) => delta[c] = 0

\* an instrumented request whose handler raised has completed
C1_Witness ==
    \E c \in Clients :
        /\ pc[c] = "done"
        /\ Instrumented(c)
        /\ outcome[c] = Raise("IntegrityError")
        /\ delta[c] = 0

\* C2: the caller of the middleware receives what call_next returned or raised.
C2_OutcomePreserved ==
    \A c \in Clients :
        (pc[c] = "done" /\ Instrumented(c)) => delivered[c] = outcome[c]

\* C3: the counter of every (method, route template, status) is the number of
\* instrumented requests of that series whose call_next returned a response.
C3_CounterCountsCompleted ==
    /\ BagToSet(REQUEST_COUNT) = BagToSet(completed)
    /\ \A k \in BagToSet(completed) :
          CopiesIn(k, REQUEST_COUNT) = CopiesIn(k, completed)

\* two requests of one series have completed, and one of another status
C3_Witness ==
    /\ \E k \in BagToSet(completed) : CopiesIn(k, REQUEST_COUNT) = 2
    /\ \E k \in BagToSet(completed) : k.status = "404"

\* C4: no step of a request to /metrics changes a counter series, a histogram
\* series or the gauge, and no series has the path /metrics.
C4_MetricsUninstrumented ==
    /\ [][\A c \in Clients :
            (pc'[c] # pc[c] /\ UrlPath(request'[c].segs) = "/metrics")
                => UNCHANGED <<REQUEST_COUNT, REQUEST_LATENCY, IN_PROGRESS>>]_vars
    /\ [](\A k \in BagToSet(REQUEST_COUNT) \cup BagToSet(REQUEST_LATENCY) :
            k.path # "/metrics")

\* a scrape has been answered with a registry that has series in it
C4_Witness ==
    \E c \in Clients :
        /\ pc[c] = "done"
        /\ UrlPath(request[c].segs) = "/metrics"
        /\ delivered[c].kind = "response"
        /\ delivered[c].status = 200
        /\ delivered[c].content[1].http_requests_total # EmptyBag
        /\ REQUEST_COUNT = delivered[c].content[1].http_requests_total

\* a GET by id of one of the collections answers with every entity a POST
\* returned with that id
GetReturnsPosted(collections) ==
    \A c \in Clients : \A coll \in collections :
        (CallNextStep(c) /\ IsGetById(c, coll)) =>
            \A p \in posted :
                (/\ p.kind = CollectionKind(coll)
                 /\ p.entity.id = ParseInt(request[c].segs[2]))
                    => outcome'[c] = Response(200, "entity", <<p.entity>>)

\* C5, as stated: for authors, books and comments, a GET by the id a POST
\* returned answers with the entity the POST returned.
C5_PostThenGetEveryKind ==
    [][GetReturnsPosted({"authors", "books", "comments"})]_vars

\* C5, amended: for authors and books, a GET by the id a POST returned answers
\* with the entity the POST returned (there is no GET by id for comments).
C5_PostThenGetAuthorOrBook ==
    [][GetReturnsPosted({"authors", "books"})]_vars

\* the second of two stored entities has been read back by its id
C5_Witness ==
    \E c \in Clients : \E coll \in {"authors", "books"} :
        /\ pc[c] = "returned"
        /\ IsGetById(c, coll)
        /\ outcome[c].kind = "response"
        /\ outcome[c].status = 200
        /\ Len(tables[CollectionKind(coll)]) = 2
        /\ outcome[c].content[1] = tables[CollectionKind(coll)][2]
        /\ [kind |-> CollectionKind(coll), entity |-> outcome[c].content[1]]
              \in posted

\* C6: every stored id was assigned by the store's sequence, never taken from
\* the payload; ids are unique within a kind; a stored entity stays as stored.
C6_IdsAssignedByStore ==
    \A k \in Kinds :
        /\ Ids(tables[k]) \subseteq generated[k]
        /\ \A i, j \in 1..Len(tables[k]) :
              tables[k][i].id = tables[k][j].id => i = j
        /\ \A p \in posted :
              p.kind = k => \E i \in 1..Len(tables[k]) : tables[k][i] = p.entity

C8_AbsentIdNotFound ==
    [][\A c \in Clients : \A coll \in {"authors", "books", "comments"} :
          (/\ CallNextStep(c)
           /\ IsGetById(c, coll)
           /\ ParseInt(request[c].segs[2]) \notin Ids(tables[CollectionKind(coll)]))
              => /\ outcome'[c].kind = "response"
                 /\ outcome'[c].status = 404
                 /\ outcome'[c].shape = "detail"
                 /\ tables' = tables
      ]_vars

\* an absent id was asked of a table that has other rows
C8_Witness ==
    \E c \in Clients : \E coll \in {"authors", "books"} :
        /\ pc[c] = "returned"
        /\ IsGetById(c, coll)
        /\ tables[CollectionKind(coll)] # <<>>
        /\ ParseInt(request[c].segs[2]) \notin Ids(tables[CollectionKind(coll)])
        /\ outcome[c].kind = "response"
        /\ outcome[c].status = 404

C10_GaugeCountsInFlight ==
    IN_PROGRESS =
        Cardinality({c \in Clients :
                        pc[c] \in {"called", "returned"} /\ Instrumented(c)})

\* two requests are in the middleware at once
C10_Witness ==
    /\ IN_PROGRESS = 2
    /\ \A c \in Clients : pc[c] \in {"called", "returned"}

====
